---- MODULE Spec2Model ----
(***************************************************************************)
(* The download form controller of src/src/App.tsx: the four signals url,  *)
(* status, result and errorMsg, the submit handler handleDownload with its *)
(* two awaits (fetch, then res.json()), the input handler and reset.       *)
(*                                                                         *)
(* Strings typed into the URL field are sequences of tokens (a token is a  *)
(* run of characters that the URL parser and the handler treat as a unit); *)
(* messages shown to the user are TLA+ strings.  JavaScript values are     *)
(* records [t |-> type, v |-> payload].                                    *)
(***************************************************************************)
EXTENDS Integers, Sequences, FiniteSets, TLC

VARIABLES
    url,        \* signal: the text of the URL field
    status,     \* signal: idle, loading, success or error
    result,     \* signal: the stored response payload, or null
    errorMsg,   \* signal: the message of the error view, or ''
    inflight,   \* the calls of handleDownload suspended at an await
    sent,       \* number of fetch calls made so far
    lastEvent,  \* the handler or continuation that ran last
    isDark,     \* signal: the theme in memory
    storedTheme,\* localStorage item 'theme'
    lightClass, \* whether the document element carries the class 'light'
    themeTrail  \* the theme and stored item as they were before each of the
                \* last two toggles

formVars == <<url, status, result, errorMsg, inflight, sent>>
themeVars == <<isDark, storedTheme, lightClass, themeTrail>>
vars == <<formVars, lastEvent, themeVars>>

(***************************************************************************)
(* Bounds of the model.                                                    *)
(***************************************************************************)
\* longest text typed into the URL field, in tokens
MaxUrlLen == 3
\* number of fetch calls after which no further request is issued
MaxRequests == 2
\* longest text typed into the URL field while the theme is observed
MaxThemeUrlLen == 2

(***************************************************************************)
(* JavaScript values.                                                      *)
(***************************************************************************)
JNull == [t |-> "null", v |-> ""]
JUndefined == [t |-> "undefined", v |-> ""]
JBool(b) == [t |-> "bool", v |-> IF b THEN "true" ELSE "false"]
\* a number, held as its decimal text
JNum(text) == [t |-> "num", v |-> text]
JStr(s) == [t |-> "str", v |-> s]
\* an array, as the sequence of its elements
JArr(elems) == [t |-> "arr", v |-> elems]
\* an object, as the function from its own property names to their values
JObj(props) == [t |-> "obj", v |-> props]

\* ToBoolean: what `status() === 'success' && result()` and `!trimmed` test
Truthy(x) ==
    CASE x.t \in {"null", "undefined"} -> FALSE
      [] x.t = "bool" -> x.v = "true"
      [] x.t = "num" -> x.v # "0"
      [] x.t = "str" -> x.v # ""
      [] OTHER -> TRUE

\* ToString of a value, as `new Error(message)` applies it to its argument
RECURSIVE JsToString(_)
JsToString(x) ==
    CASE x.t = "obj" -> "[object Object]"
      [] x.t = "arr" ->
            IF Len(x.v) = 0 THEN ""
            ELSE LET elem(i) == IF x.v[i].t \in {"null", "undefined"} THEN ""
                                ELSE JsToString(x.v[i])
                     join[i \in 1..Len(x.v)] ==
                        IF i = 1 THEN elem(1) ELSE join[i - 1] \o "," \o elem(i)
                 IN join[Len(x.v)]
      [] x.t = "null" -> "null"
      [] x.t = "undefined" -> "undefined"
      [] OTHER -> x.v

\* property read `data.name`; reading a property of null or undefined throws,
\* which GetProp's callers test with IsNullish first
GetProp(data, name) ==
    IF data.t = "obj" /\ name \in DOMAIN data.v THEN data.v[name] ELSE JUndefined

IsNullish(x) == x.t \in {"null", "undefined"}

\* decimal text of a natural number, as a template literal prints res.status
Digit(d) == <<"0", "1", "2", "3", "4", "5", "6", "7", "8", "9">>[d + 1]

RECURSIVE DecStr(_)
DecStr(n) == IF n < 10 THEN Digit(n) ELSE DecStr(n \div 10) \o Digit(n % 10)

(***************************************************************************)
(* Text of the URL field.  A text is a sequence of tokens.                 *)
(***************************************************************************)
Space == " "
Slashes == "//"
\* scheme tokens, each a scheme name with its colon, and the protocol the URL
\* parser reports for it (the scheme in lower case, colon included)
ProtocolOf ==
    [tok \in {"http:", "https:", "HTTP:", "HTTPS:", "ftp:", "file:",
              "javascript:", "data:"} |->
        CASE tok = "HTTP:" -> "http:"
          [] tok = "HTTPS:" -> "https:"
          [] OTHER -> tok]
SchemeTokens == DOMAIN ProtocolOf
\* schemes the URL parser calls special: they take an authority with or
\* without the two slashes
SpecialProtocols == {"http:", "https:", "ftp:", "file:"}
\* the tokens a user can type in this model
Tokens == {Space, "https:", "ftp:", "javascript:", Slashes, "example.com"}

\* lower-casing of a token, as the i flag of a pattern sees it
Lower(tok) ==
    CASE tok \in SchemeTokens -> ProtocolOf[tok]
      [] tok = "YouTube.com" -> "youtube.com"
      [] OTHER -> tok

RECURSIVE TrimStart(_)
TrimStart(s) ==
    IF s # <<>> /\ Head(s) = Space THEN TrimStart(Tail(s)) ELSE s

RECURSIVE TrimEnd(_)
TrimEnd(s) ==
    IF s # <<>> /\ s[Len(s)] = Space THEN TrimEnd(SubSeq(s, 1, Len(s) - 1)) ELSE s

\* String.prototype.trim
Trim(s) == TrimEnd(TrimStart(s))

RECURSIVE SkipSlashes(_)
SkipSlashes(s) ==
    IF s # <<>> /\ Head(s) = Slashes THEN SkipSlashes(Tail(s)) ELSE s

\* the tokens of s before its first Slashes token
RECURSIVE UpToSlashes(_)
UpToSlashes(s) ==
    IF s = <<>> \/ Head(s) = Slashes THEN <<>>
    ELSE <<Head(s)>> \o UpToSlashes(Tail(s))

\* an authority is a host and at most a port: no white space in it, and a
\* colon (the end of a scheme token) only as its last character, where it
\* starts an empty port
AuthorityOk(auth) ==
    \A i \in 1..Len(auth) :
        /\ auth[i] # Space
        /\ auth[i] \in SchemeTokens => i = Len(auth)

\* whether `new URL(s)` returns (TRUE) or throws (FALSE), for a trimmed s
UrlParses(s) ==
    /\ s # <<>>
    /\ Head(s) \in SchemeTokens
    /\ LET protocol == ProtocolOf[Head(s)]
           rest == Tail(s)
       IN IF protocol \in SpecialProtocols
          THEN LET auth == UpToSlashes(SkipSlashes(rest))
               IN /\ AuthorityOk(auth)
                  /\ auth # <<>> \/ protocol = "file:"
          ELSE IF rest # <<>> /\ Head(rest) = Slashes
               THEN AuthorityOk(UpToSlashes(Tail(rest)))
               ELSE TRUE

\* parsed.protocol of a text that parses
UrlProtocol(s) == ProtocolOf[Head(s)]

(***************************************************************************)
(* Platform detection.                                                     *)
(***************************************************************************)
\* a pattern that finds one of `any` somewhere in the text
Somewhere(any) == [anchored |-> FALSE, any |-> any]
\* the pattern ^https?:\/\/
HttpPrefix == [anchored |-> TRUE, any |-> {"http:", "https:"}]

PLATFORMS ==
    << [name |-> "YouTube", pattern |-> Somewhere({"youtube.com", "youtu.be"})],
       [name |-> "Instagram", pattern |-> Somewhere({"instagram.com"})],
       [name |-> "TikTok", pattern |-> Somewhere({"tiktok.com"})],
       [name |-> "Facebook", pattern |-> Somewhere({"facebook.com", "fb.watch"})],
       [name |-> "Generic", pattern |-> HttpPrefix] >>

\* pattern.test(s), every pattern carrying the i flag
Test(pattern, s) ==
    IF pattern.anchored
    THEN Len(s) >= 2 /\ Lower(s[1]) \in pattern.any /\ s[2] = Slashes
    ELSE \E i \in 1..Len(s) : Lower(s[i]) \in pattern.any

NoPlatform == "null"

\* PLATFORMS.find(...)?.name ?? null
detectPlatform(s) ==
    LET hits == {i \in 1..Len(PLATFORMS) : Test(PLATFORMS[i].pattern, s)}
    IN IF hits = {} THEN NoPlatform
       ELSE PLATFORMS[CHOOSE i \in hits : \A j \in hits : i <= j].name

\* the platform() accessor
platform == IF url # <<>> THEN detectPlatform(url) ELSE NoPlatform

(***************************************************************************)
(* The download API as the client sees it.                                 *)
(***************************************************************************)
API_BASE == "http://localhost:8000"

\* the request handleDownload hands to fetch for a trimmed text
DownloadRequest(trimmed) ==
    [method |-> "POST",
     endpoint |-> API_BASE \o "/api/download",
     contentType |-> "application/json",
     body |-> [url |-> trimmed]]

\* a response body: text that JSON.parse rejects, or text that parses to json
Unparseable == [parses |-> FALSE]
Parsed(json) == [parses |-> TRUE, json |-> json]

GoodPayload ==
    JObj([status |-> JStr("ok"), message |-> JStr("done"),
          filename |-> JStr("video.mp4"),
          download_url |-> JStr("/files/video.mp4")])

\* the bodies the server side answers with in this model
Bodies ==
    { Unparseable,
      Parsed(JNull),
      Parsed(JNum("0")),
      Parsed(JObj(<<>>)),
      Parsed(GoodPayload),
      Parsed(JObj([status |-> JStr("ok"), message |-> JStr("done"),
                   filename |-> JStr("video.mp4")])),
      Parsed(JObj([detail |-> JStr("unsupported URL")])),
      Parsed(JObj([detail |-> JNull])),
      Parsed(JObj([detail |-> JArr(<<JObj([msg |-> JStr("field required")])>>)])) }

StatusCodes == {200, 299, 422, 500}

\* Response.ok
Ok(code) == 200 <= code /\ code <= 299

\* an exception object: every value thrown in handleDownload is an Error
ErrorValue(name, message) == [isError |-> TRUE, name |-> name, message |-> message]

\* what fetch rejects with when no response arrives; the text is the browser's
FetchFailures ==
    { ErrorValue("TypeError", "Failed to fetch"),
      ErrorValue("TypeError", "NetworkError when attempting to fetch resource.") }

\* what res.json() rejects with on a body that is not JSON
JsonSyntaxError == ErrorValue("SyntaxError", "Unexpected token < in JSON at position 0")

\* what reading `.detail` of null throws
NullReadError ==
    ErrorValue("TypeError", "Cannot read properties of null (reading 'detail')")

\* how far an issued request has got
Pending == [kind |-> "pending"]
Rejected(reason) == [kind |-> "rejected", reason |-> reason]
Response(code, body) == [kind |-> "response", status |-> code, body |-> body]

(***************************************************************************)
(* Messages.                                                               *)
(***************************************************************************)
\* a misplaced constant: the fallback text where the invalid-URL text belongs
InvalidUrlMessageFallback == "Unknown error occurred"

InvalidUrlMessage == "Invalid URL. Please enter a valid http or https URL."

\* a message that leaves the scheme out
UnsupportedSchemeMessageFixed(protocol) ==
    "Unsupported URL scheme. Only http and https are allowed."

UnsupportedSchemeMessage(protocol) ==
    "Unsupported URL scheme \"" \o protocol \o "\". Only http and https are allowed."

UnknownErrorMessage == "Unknown error occurred"

ServerErrorMessage(code) == "Server error " \o DecStr(code)

(***************************************************************************)
(* The component's state after construction.                               *)
(***************************************************************************)
\* localStorage.getItem of a key that was never set
NoTheme == "null"

\* the values the 'theme' item can hold when the page loads
StoredThemes == {NoTheme, "dark", "light"}

\* onMount: saved ? saved === 'dark' : true
MountDark(saved) == IF saved # NoTheme /\ saved # "" THEN saved = "dark" ELSE TRUE

\* the signals after createSignal
InitForm ==
    /\ url = <<>>
    /\ status = "idle"
    /\ result = JNull
    /\ errorMsg = ""
    /\ inflight = <<>>
    /\ sent = 0
    /\ lastEvent = "mount"

\* the theme after onMount has read the stored item `saved`
Mounted(saved) ==
    /\ storedTheme = saved
    /\ isDark = MountDark(saved)
    /\ lightClass = ~MountDark(saved)
    /\ themeTrail = <<>>

\* a first visit: nothing stored
Init == InitForm /\ Mounted(NoTheme)

\* any visit
InitTheme == InitForm /\ \E saved \in StoredThemes : Mounted(saved)

isLoading == status = "loading"

\* a form whose controls are never disabled
FormAlwaysEnabled == TRUE

\* the submit button and the input carry disabled={isLoading()}
FormEnabled == ~isLoading

\* a reset control that is on the page in every view
ResetAlwaysOffered == TRUE

\* the reset buttons live in the success view, shown when
\* status() === 'success' && result(), and in the error view
ResetOffered ==
    \/ status = "success" /\ Truthy(result)
    \/ status = "error"

\* a deny list in place of the allow list
SchemeAllowedDenyList(protocol) == protocol # "javascript:"

\* the scheme guard of handleDownload
SchemeAllowed(protocol) == ~(protocol # "http:" /\ protocol # "https:")

\* a catch clause that shows the fallback text for every error
CatchMessageGeneric(err) == UnknownErrorMessage

\* the catch clause's choice of message
CatchMessage(err) == IF err.isError THEN err.message ELSE UnknownErrorMessage

\* a catch clause that shows the message and leaves status alone
CatchKeepsStatus(err) ==
    /\ errorMsg' = CatchMessage(err)
    /\ status' = status

\* the catch clause: setErrorMsg(msg); setStatus('error')
Catch(err) ==
    /\ errorMsg' = CatchMessage(err)
    /\ status' = "error"

\* entering loading without clearing the previous error
BeginLoadingKeepsError ==
    /\ status' = "loading"
    /\ result' = JNull
    /\ UNCHANGED errorMsg

\* setStatus('loading'); setResult(null); setErrorMsg('')
BeginLoading ==
    /\ status' = "loading"
    /\ result' = JNull
    /\ errorMsg' = ""

\* s without its i-th element
RemoveAt(s, i) == SubSeq(s, 1, i - 1) \o SubSeq(s, i + 1, Len(s))

(***************************************************************************)
(* Actions.                                                                *)
(***************************************************************************)
\* an input handler that also dismisses the error view
OnInputClearsError ==
    /\ FormEnabled
    /\ \/ \E tok \in Tokens :
            /\ Len(url) < MaxUrlLen
            /\ url' = Append(url, tok)
       \/ /\ url # <<>>
          /\ url' = SubSeq(url, 1, Len(url) - 1)
    /\ lastEvent' = "input"
    /\ status' = IF status = "error" THEN "idle" ELSE status
    /\ UNCHANGED <<result, errorMsg, inflight, sent>>
    /\ UNCHANGED themeVars

\* onInput: a keystroke appends a token to the field or deletes its last one
OnInput ==
    /\ FormEnabled
    /\ \/ \E tok \in Tokens :
            /\ Len(url) < MaxUrlLen
            /\ url' = Append(url, tok)
       \/ /\ url # <<>>
          /\ url' = SubSeq(url, 1, Len(url) - 1)
    /\ lastEvent' = "input"
    /\ UNCHANGED <<status, result, errorMsg, inflight, sent>>
    /\ UNCHANGED themeVars

\* an empty submit that takes the form back to idle
IgnoreEmptyToIdle ==
    /\ status' = "idle"
    /\ UNCHANGED <<url, result, errorMsg, inflight, sent>>

\* if (!trimmed) return
IgnoreEmpty == UNCHANGED <<url, status, result, errorMsg, inflight, sent>>

\* handleDownload up to its first await
Submit ==
    /\ FormEnabled
    /\ lastEvent' = "submit"
    /\ UNCHANGED themeVars
    /\ LET trimmed == Trim(url) IN
       IF trimmed = <<>>
       THEN IgnoreEmpty
       ELSE IF ~UrlParses(trimmed)
       THEN /\ errorMsg' = InvalidUrlMessage
            /\ status' = "error"
            /\ UNCHANGED <<url, result, inflight, sent>>
       ELSE IF ~SchemeAllowed(UrlProtocol(trimmed))
       THEN /\ errorMsg' = UnsupportedSchemeMessage(UrlProtocol(trimmed))
            /\ status' = "error"
            /\ UNCHANGED <<url, result, inflight, sent>>
       ELSE /\ sent < MaxRequests
            /\ BeginLoading
            /\ inflight' = Append(inflight,
                    [request |-> DownloadRequest(trimmed),
                     pc |-> "fetch", outcome |-> Pending])
            /\ sent' = sent + 1
            /\ UNCHANGED url

\* the network settles the fetch promise: a response arrives, or none does
FetchSettles ==
    \E i \in 1..Len(inflight) :
        /\ inflight[i].pc = "fetch"
        /\ \E outcome \in {Rejected(e) : e \in FetchFailures}
                          \cup {Response(c, b) : c \in StatusCodes, b \in Bodies} :
              inflight' = [inflight EXCEPT ![i] =
                              [@ EXCEPT !.pc = "fetched", !.outcome = outcome]]
        /\ lastEvent' = "network"
        /\ UNCHANGED themeVars
        /\ UNCHANGED <<url, status, result, errorMsg, sent>>

\* handleDownload resumes after `await fetch(...)`: a rejection goes to the
\* catch clause, a response has its body read with res.json() on either branch
AfterFetch ==
    \E i \in 1..Len(inflight) :
        /\ inflight[i].pc = "fetched"
        /\ lastEvent' = "afterFetch"
        /\ UNCHANGED themeVars
        /\ IF inflight[i].outcome.kind = "rejected"
           THEN /\ Catch(inflight[i].outcome.reason)
                /\ inflight' = RemoveAt(inflight, i)
                /\ UNCHANGED <<url, result, sent>>
           ELSE /\ inflight' = [inflight EXCEPT ![i].pc = "json"]
                /\ UNCHANGED <<url, status, result, errorMsg, sent>>

\* the value of `data.detail ?? `Server error ${res.status}``
DetailOrDefault(data, code) ==
    IF IsNullish(GetProp(data, "detail")) THEN JStr(ServerErrorMessage(code))
    ELSE GetProp(data, "detail")

\* what the `if (!res.ok)` block throws for a response
NotOkError(res) ==
    LET data == IF res.body.parses THEN res.body.json ELSE JObj(<<>>)
    IN IF IsNullish(data) THEN NullReadError
       ELSE ErrorValue("Error", JsToString(DetailOrDefault(data, res.status)))

\* handleDownload resumes after `await res.json()`
AfterJson ==
    \E i \in 1..Len(inflight) :
        /\ inflight[i].pc = "json"
        /\ lastEvent' = "afterJson"
        /\ UNCHANGED themeVars
        /\ inflight' = RemoveAt(inflight, i)
        /\ LET res == inflight[i].outcome IN
           IF ~Ok(res.status)
           THEN /\ Catch(NotOkError(res))
                /\ UNCHANGED <<url, result, sent>>
           ELSE IF ~res.body.parses
           THEN /\ Catch(JsonSyntaxError)
                /\ UNCHANGED <<url, result, sent>>
           ELSE /\ result' = res.body.json
                /\ status' = "success"
                /\ UNCHANGED <<url, errorMsg, sent>>

\* a reset that leaves the text in the field
ResetKeepsUrl ==
    /\ ResetOffered
    /\ status' = "idle"
    /\ result' = JNull
    /\ errorMsg' = ""
    /\ lastEvent' = "reset"
    /\ UNCHANGED <<url, inflight, sent>>
    /\ UNCHANGED themeVars

\* reset
Reset ==
    /\ ResetOffered
    /\ url' = <<>>
    /\ status' = "idle"
    /\ result' = JNull
    /\ errorMsg' = ""
    /\ lastEvent' = "reset"
    /\ UNCHANGED <<inflight, sent>>
    /\ UNCHANGED themeVars

Next ==
    \/ OnInput
    \/ Submit
    \/ FetchSettles
    \/ AfterFetch
    \/ AfterJson
    \/ Reset

Spec == Init /\ [][Next]_vars

\* the two names the wrong way round
ThemeNameSwapped(dark) == IF dark THEN "light" ELSE "dark"

\* the name under which a theme is stored
ThemeName(dark) == IF dark THEN "dark" ELSE "light"

\* the last two entries of a trail to which snap is added
Trail(trail, snap) ==
    IF Len(trail) < 2 THEN Append(trail, snap) ELSE <<trail[2], snap>>

\* a toggle that does not write the theme back
ToggleThemeNoPersist ==
    /\ LET next == ~isDark IN
        /\ isDark' = next
        /\ lightClass' = ~next
    /\ themeTrail' = Trail(themeTrail, [isDark |-> isDark, stored |-> storedTheme])
    /\ lastEvent' = "toggle"
    /\ UNCHANGED storedTheme
    /\ UNCHANGED formVars

\* toggleTheme
ToggleTheme ==
    /\ LET next == ~isDark IN
        /\ isDark' = next
        /\ lightClass' = ~next
        /\ storedTheme' = ThemeName(next)
    /\ themeTrail' = Trail(themeTrail, [isDark |-> isDark, stored |-> storedTheme])
    /\ lastEvent' = "toggle"
    /\ UNCHANGED formVars

\* a step of the form taken while the theme is observed
FormStep(step) ==
    /\ step
    /\ Len(url') <= MaxThemeUrlLen

NextTheme ==
    \/ ToggleTheme
    \/ FormStep(OnInput)
    \/ FormStep(Submit)
    \/ FormStep(FetchSettles)
    \/ FormStep(AfterFetch)
    \/ FormStep(AfterJson)
    \/ FormStep(Reset)

\* the form together with the theme toggle, from any stored theme
SpecTheme == InitTheme /\ [][NextTheme]_vars

\* the network answers every request, and a resumed handler runs on
Fairness ==
    /\ WF_vars(FetchSettles)
    /\ WF_vars(AfterFetch)
    /\ WF_vars(AfterJson)

LiveSpec == Spec /\ Fairness

TypeOK ==
    /\ Len(url) <= MaxUrlLen
    /\ status \in {"idle", "loading", "success", "error"}
    /\ sent \in 0..MaxRequests

(***************************************************************************)
(* Properties.                                                             *)
(***************************************************************************)
\* a trimmed text that parses as an absolute URL of scheme http or https
HttpUrl(trimmed) ==
    /\ UrlParses(trimmed)
    /\ UrlProtocol(trimmed) \in {"http:", "https:"}

\* the step in which the call suspended at inflight[i] resumes after
\* `await res.json()` and returns
JsonResumes(i) ==
    /\ inflight[i].pc = "json"
    /\ lastEvent' = "afterJson"
    /\ inflight' = RemoveAt(inflight, i)

\* the step in which the call suspended at inflight[i] resumes after a fetch
\* that brought no response
FetchFailureResumes(i) ==
    /\ inflight[i].pc = "fetched"
    /\ inflight[i].outcome.kind = "rejected"
    /\ lastEvent' = "afterFetch"
    /\ inflight' = RemoveAt(inflight, i)

Is2xx(code) == code \in 200..299

\* C1: result and errorMsg are never both populated.
C1_ResultAndErrorExclusive == ~(result # JNull /\ errorMsg # "")

\* C2: outside status success the result is absent.
C2_ResultOnlyInSuccess ==
    status \in {"idle", "loading", "error"} => result = JNull

\* C3: a step issues a request only if it is a submit of a text whose
\* trimmed form parses as an absolute URL of scheme http or https; a submit
\* of any other text leaves the number of requests and the suspended calls
\* as they were.
C3_RejectedInputSendsNothing ==
    [][ /\ sent' # sent => lastEvent' = "submit" /\ HttpUrl(Trim(url))
        /\ lastEvent' = "submit" /\ ~HttpUrl(Trim(url))
            => sent' = sent /\ inflight' = inflight ]_vars

\* C3 witness: a scheme other than http(s) was submitted after an earlier
\* request, and the count of requests stayed at one.
C3_Witness ==
    /\ lastEvent = "submit"
    /\ status = "error"
    /\ Trim(url) # <<>> /\ ~HttpUrl(Trim(url))
    /\ sent = 1
    /\ inflight = <<>>

\* C4: at most one call is suspended at any time, and while status is
\* loading no step is a submit or an edit, issues a request or changes url.
C4_OneRequestInFlight ==
    /\ [](Len(inflight) <= 1)
    /\ [][ status = "loading" =>
             /\ lastEvent' \notin {"submit", "input"}
             /\ sent' = sent
             /\ url' = url ]_vars

\* C4 witness: the second request of a session is in flight, alone, its
\* handler suspended at the second await.
C4_Witness ==
    /\ status = "loading"
    /\ sent = 2
    /\ Len(inflight) = 1
    /\ inflight[1].pc = "json"

\* C5: a submit of a text whose trimmed form is an http(s) URL sets status
\* to loading, clears result and errorMsg, and issues exactly one POST to
\* API_BASE/api/download whose body holds the trimmed text.
C5_ValidSubmitStartsLoading ==
    [][ lastEvent' = "submit" /\ HttpUrl(Trim(url)) =>
          /\ status \in {"idle", "error", "success"}
          /\ status' = "loading"
          /\ result' = JNull
          /\ errorMsg' = ""
          /\ sent' = sent + 1
          /\ Len(inflight') = Len(inflight) + 1
          /\ SubSeq(inflight', 1, Len(inflight)) = inflight
          /\ inflight'[Len(inflight')].pc = "fetch"
          /\ inflight'[Len(inflight')].request =
                [method |-> "POST",
                 endpoint |-> "http://localhost:8000/api/download",
                 contentType |-> "application/json",
                 body |-> [url |-> Trim(url)]] ]_vars

\* C5 witness: a request is in flight for a text that platform detection
\* does not classify, typed with white space around it, submitted from the
\* error view.
C5_Witness ==
    /\ lastEvent = "submit"
    /\ status = "loading"
    /\ Len(inflight) = 1
    /\ platform = NoPlatform
    /\ url # Trim(url)
    /\ inflight[1].request.body.url = Trim(url)
    /\ sent = 2

\* C6: status is success only with a result that is an object holding at
\* least status, message, filename and download_url.
C6_SuccessNeedsPayloadFields ==
    status = "success" =>
        /\ result.t = "obj"
        /\ {"status", "message", "filename", "download_url"} \subseteq DOMAIN result.v

\* the message C7 expects for a response that is not 2xx
C7_Expected(res) ==
    IF /\ res.body.parses
       /\ res.body.json.t = "obj"
       /\ "detail" \in DOMAIN res.body.json.v
       /\ res.body.json.v["detail"].t = "str"
    THEN res.body.json.v["detail"].v
    ELSE "Server error " \o DecStr(res.status)

\* C7: after a response that is not 2xx, status is error and errorMsg is the
\* body's detail when it has one, else "Server error <status>".
C7_Non2xxMessage ==
    [][ \A i \in 1..Len(inflight) :
          JsonResumes(i) /\ ~Is2xx(inflight[i].outcome.status) =>
             /\ status' = "error"
             /\ errorMsg' = C7_Expected(inflight[i].outcome) ]_vars

\* C8 as stated: after a fetch without response, or a 2xx response whose
\* body is not JSON, status is error and errorMsg is the fallback text.
C8_FallbackMessage ==
    [][ \A i \in 1..Len(inflight) :
          \/ FetchFailureResumes(i)
          \/ /\ JsonResumes(i)
             /\ Is2xx(inflight[i].outcome.status)
             /\ ~inflight[i].outcome.body.parses
          => /\ status' = "error"
             /\ errorMsg' = "Unknown error occurred" ]_vars

\* C8 amended: after a fetch without response, or a 2xx response whose body
\* is not JSON, status is error and errorMsg is the message of the error
\* that was raised: the rejection's message, or the JSON parser's.
C8_RaisedErrorMessage ==
    [][ \A i \in 1..Len(inflight) :
          /\ FetchFailureResumes(i) =>
                /\ status' = "error"
                /\ errorMsg' = inflight[i].outcome.reason.message
          /\ /\ JsonResumes(i)
             /\ Is2xx(inflight[i].outcome.status)
             /\ ~inflight[i].outcome.body.parses
             => /\ status' = "error"
                /\ errorMsg' = JsonSyntaxError.message ]_vars

\* C8 witness: the error view shows the text of a failed fetch.
C8_Witness ==
    /\ lastEvent = "afterFetch"
    /\ status = "error"
    /\ errorMsg = "Failed to fetch"
    /\ inflight = <<>>

\* C9 as stated: a submit of any text that does not parse as an absolute
\* URL sets status to error with the invalid-URL message and sends nothing.
C9_UnparseableSubmitIsError ==
    [][ lastEvent' = "submit" /\ ~UrlParses(Trim(url)) =>
          /\ status' = "error"
          /\ errorMsg' = "Invalid URL. Please enter a valid http or https URL."
          /\ sent' = sent
          /\ inflight' = inflight ]_vars

\* C9 amended: a submit of a text that is not empty after trimming and does
\* not parse as an absolute URL sets status to error with the invalid-URL
\* message and sends nothing.
C9_NonEmptyUnparseableSubmitIsError ==
    [][ lastEvent' = "submit" /\ Trim(url) # <<>> /\ ~UrlParses(Trim(url)) =>
          /\ status' = "error"
          /\ errorMsg' = "Invalid URL. Please enter a valid http or https URL."
          /\ sent' = sent
          /\ inflight' = inflight ]_vars

\* C9 witness: a text without a scheme was submitted; no request was made.
C9_Witness ==
    /\ lastEvent = "submit"
    /\ Trim(url) # <<>> /\ ~UrlParses(Trim(url))
    /\ status = "error"
    /\ errorMsg = InvalidUrlMessage
    /\ sent = 0

\* C10: a submit of a text that parses with a scheme other than http and
\* https sets status to error with a message quoting that scheme, and sends
\* nothing.
C10_OtherSchemeSubmitIsError ==
    [][ /\ lastEvent' = "submit"
        /\ UrlParses(Trim(url))
        /\ UrlProtocol(Trim(url)) \notin {"http:", "https:"}
        => /\ status' = "error"
           /\ errorMsg' = "Unsupported URL scheme \"" \o UrlProtocol(Trim(url))
                            \o "\". Only http and https are allowed."
           /\ sent' = sent
           /\ inflight' = inflight ]_vars

\* C10 witness: javascript: was submitted and is named in the message; no
\* request was made.
C10_Witness ==
    /\ lastEvent = "submit"
    /\ Trim(url) # <<>>
    /\ Head(Trim(url)) = "javascript:"
    /\ status = "error"
    /\ errorMsg = "Unsupported URL scheme \"javascript:\". Only http and https are allowed."
    /\ sent = 0

\* C11: a reset happens only in status success or error, and leaves status
\* idle, the field empty, result null and errorMsg empty, with the requests
\* as they were.
C11_ResetReturnsToIdle ==
    [][ lastEvent' = "reset" =>
          /\ status \in {"success", "error"}
          /\ status' = "idle"
          /\ url' = <<>>
          /\ result' = JNull
          /\ errorMsg' = ""
          /\ sent' = sent
          /\ inflight' = inflight ]_vars

\* C11 witness: the form was reset after its second request.
C11_Witness ==
    /\ lastEvent = "reset"
    /\ status = "idle"
    /\ url = <<>>
    /\ sent = 2

\* C12 as stated: a submit of a text that is empty after trimming issues no
\* request, changes none of url, result and errorMsg, and leaves status idle.
C12_EmptySubmitEndsIdle ==
    [][ lastEvent' = "submit" /\ Trim(url) = <<>> =>
          /\ sent' = sent
          /\ inflight' = inflight
          /\ url' = url
          /\ result' = result
          /\ errorMsg' = errorMsg
          /\ status' = "idle" ]_vars

\* C12 amended: a submit of a text that is empty after trimming issues no
\* request and changes none of url, result, errorMsg and status.
C12_EmptySubmitChangesNothing ==
    [][ lastEvent' = "submit" /\ Trim(url) = <<>> =>
          /\ sent' = sent
          /\ inflight' = inflight
          /\ url' = url
          /\ result' = result
          /\ errorMsg' = errorMsg
          /\ status' = status ]_vars

\* C12 witness: white space was submitted from the error view, which stays.
C12_Witness ==
    /\ lastEvent = "submit"
    /\ url # <<>>
    /\ Trim(url) = <<>>
    /\ status = "error"
    /\ errorMsg # ""

\* whether no entry of PLATFORMS before the i-th matches s
NoneBefore(i, s) == \A j \in 1..(i - 1) : ~Test(PLATFORMS[j].pattern, s)

\* C13: for the empty text detection gives no platform; for any other text
\* it gives the name of the first entry of PLATFORMS that matches, and an
\* http(s) URL that matches none of the four named platforms gets Generic.
C13_FirstMatchOrGeneric ==
    /\ url = <<>> => platform = NoPlatform
    /\ url # <<>> =>
        /\ \A i \in 1..Len(PLATFORMS) :
              Test(PLATFORMS[i].pattern, url) /\ NoneBefore(i, url)
                 => platform = PLATFORMS[i].name
        /\ HttpUrl(url) /\ NoneBefore(Len(PLATFORMS), url)
              => platform = "Generic"

\* C14: a text that submission accepts gets a platform: detection gives no
\* platform only for a text that is empty or that submission does not take
\* for an http(s) URL.
C14_AcceptedTextHasPlatform ==
    /\ HttpUrl(Trim(url)) => platform \in {PLATFORMS[i].name : i \in 1..Len(PLATFORMS)}
    /\ platform = NoPlatform => url = <<>> \/ ~HttpUrl(Trim(url))

\* C15: in status error, a step that is neither a reset nor a submit issues
\* no request and leaves status error; a step raises the number of requests,
\* by one, exactly when it is a submit of an http(s) text.
C15_ErrorsAreTerminal ==
    [][ /\ status = "error" /\ lastEvent' \notin {"reset", "submit"} =>
              /\ sent' = sent
              /\ inflight' = inflight
              /\ status' = "error"
        /\ sent' # sent <=>
              /\ lastEvent' = "submit"
              /\ status # "loading"
              /\ HttpUrl(Trim(url))
              /\ sent' = sent + 1 ]_vars

\* C15 witness: after a server error the text was edited, and the error
\* view is still up with no further request made.
C15_Witness ==
    /\ lastEvent = "input"
    /\ status = "error"
    /\ errorMsg = "Server error 500"
    /\ sent = 1
    /\ inflight = <<>>

\* C16 as stated: after two toggles the theme in memory and the stored item
\* are what they were before the two, whatever the stored item was.
C16_TwoTogglesRestoreAll ==
    Len(themeTrail) = 2 =>
        /\ isDark = themeTrail[1].isDark
        /\ storedTheme = themeTrail[1].stored

\* C16 amended: after two toggles the theme in memory is what it was before
\* the two, and so is the stored item if one was stored; if none was stored,
\* the stored item is "dark", the theme that the missing item stood for.
C16_TwoTogglesRestoreTheme ==
    Len(themeTrail) = 2 =>
        /\ isDark = themeTrail[1].isDark
        /\ themeTrail[1].stored \in {"dark", "light"}
              => storedTheme = themeTrail[1].stored
        /\ themeTrail[1].stored = NoTheme
              => storedTheme = "dark" /\ isDark

\* C16 witness: a page that loaded with "light" stored has been toggled
\* twice and shows light again, with "light" stored.
C16_Witness ==
    /\ lastEvent = "toggle"
    /\ Len(themeTrail) = 2
    /\ themeTrail[1] = [isDark |-> FALSE, stored |-> "light"]
    /\ themeTrail[2] = [isDark |-> TRUE, stored |-> "dark"]
    /\ ~isDark
    /\ storedTheme = "light"

\* C17: at startup the theme is dark if nothing is stored and else the
\* stored one; a toggle flips the theme and stores its name; the document
\* carries the class light exactly when the theme is light; no other step
\* changes the theme, the stored item or the class.
C17_ThemeLifecycle ==
    /\ [](lightClass = ~isDark)
    /\ [](lastEvent = "mount" =>
            /\ storedTheme = NoTheme => isDark
            /\ storedTheme = "dark" => isDark
            /\ storedTheme = "light" => ~isDark)
    /\ [][ lastEvent' = "toggle" =>
             /\ isDark' = ~isDark
             /\ storedTheme' = (IF isDark' THEN "dark" ELSE "light")
             /\ lightClass' = ~isDark' ]_vars
    /\ [][ lastEvent' # "toggle" =>
             /\ isDark' = isDark
             /\ storedTheme' = storedTheme
             /\ lightClass' = lightClass ]_vars

\* C17 witness: the theme was toggled to light on a first visit while a
\* request was in flight; "light" is stored and the class is set.
C17_Witness ==
    /\ lastEvent = "toggle"
    /\ status = "loading"
    /\ themeTrail = <<[isDark |-> TRUE, stored |-> NoTheme]>>
    /\ ~isDark
    /\ storedTheme = "light"
    /\ lightClass

\* C18: while status is loading no step is an edit, a submit or a reset,
\* and url, status, result and errorMsg change only in a step that resumes
\* the suspended handler; such a step happens only in status loading, with
\* one call suspended, whose request carries the text still in the field.
C18_NoStaleResponse ==
    [][ /\ status = "loading" =>
              /\ lastEvent' \notin {"input", "submit", "reset"}
              /\ <<url, status, result, errorMsg>>' # <<url, status, result, errorMsg>>
                    => lastEvent' \in {"afterFetch", "afterJson"}
        /\ lastEvent' \in {"afterFetch", "afterJson"} =>
              /\ status = "loading"
              /\ Len(inflight) = 1
              /\ inflight[1].request.body.url = Trim(url)
              /\ url' = url ]_vars

\* C18 witness: the response to the first request was applied to the form
\* that still holds the submitted text.
C18_Witness ==
    /\ lastEvent = "afterJson"
    /\ status = "success"
    /\ result = GoodPayload
    /\ url = <<"https:", Slashes, "example.com">>
    /\ sent = 1
    /\ inflight = <<>>

\* C19: under a network that answers every request and an event loop that
\* resumes every handler, status loading leads to success or error, and in
\* status error the reset control can always be used.
C19_LoadingEnds ==
    /\ (status = "loading") ~> (status \in {"success", "error"})
    /\ [](status = "error" => ENABLED Reset)

\* C19 witness: a request that got no response has ended in the error view.
C19_Witness ==
    /\ lastEvent = "afterFetch"
    /\ status = "error"
    /\ errorMsg = "NetworkError when attempting to fetch resource."
    /\ inflight = <<>>
    /\ sent = 2

\* C20: in status success the result is not null and the success view, with
\* its reset control, is on the page.
C20_SuccessHasResult ==
    status = "success" =>
        /\ result # JNull
        /\ Truthy(result)
        /\ ENABLED Reset

====
